---- MODULE Spec2Model ----
(***************************************************************************)
(* State-machine model of scrape_media.py: parse_single_page_and_media     *)
(* renders one page, collects candidate media references, bridges the      *)
(* browser session into a requests.Session, scans linked stylesheets,      *)
(* acquires every candidate into media_dir and writes the manifest.        *)
(* playwright_crawler.py: playwright_crawl visits the pages of one domain   *)
(* breadth first, up to MAX_PAGES of them (SpecCrawl).                     *)
(*                                                                         *)
(* References are numbered in ascending string order, the order in which   *)
(* sorted(media_urls) visits them (upper-case letters sort before lower):  *)
(*  10  HTTP://cdn.ex.com/fc9d5eb7cce43dd0.png                             *)
(*  20  data:image/gif;base64,R0l            (incorrect base64 padding)    *)
(*  22  data:image/png;base64                (no comma)                    *)
(*  25  data:image/png;base64,!!!!           (no base64 character at all)  *)
(*  30  data:image/png;base64,iVBORw0K       (sha256[:16]=fc9d5eb7cce43dd0)*)
(*  35  data:text/plain,a%20b                (sha256[:16]=50c5bf6edf7f111b)*)
(*  40  https://ex.com/a/logo.png                                          *)
(*  45  https://ex.com/a/logo.png#v2                                       *)
(*  50  https://ex.com/b/logo.png                                          *)
(*  60  https://ex.com/css/main.css          (contains url(../b/logo.png)) *)
(*  65  https://ex.com/css/skin.css          (contains url(main.css))      *)
(*  70  https://ex.com/feed                  (sha256[:16]=e7f732e0964fe6d5)*)
(*  75  https://ex.com/img/pic.png@2x                                      *)
(*  80  https://ex.com/shop/b/logo.png       (on no page and in no sheet)  *)
(*  90  https://ex.com/theme.css             (contains url(/b/logo.png)    *)
(*                          and url(data:image/png;base64,iVBORw0K))       *)
(* The page is https://ex.com/shop/item/42; urljoin leaves all of them as  *)
(* they are (reference 10 differs from the page in scheme, so it is        *)
(* returned unchanged, upper-case scheme included).                        *)
(***************************************************************************)
EXTENDS Integers, Sequences, FiniteSets, TLC

\* ------------------------------------------------------------------ bounds
\* Most distinct references one page contributes to the candidate set.
MaxRefs == 2
\* Largest body, in bytes, a server streams for one GET.
MaxBody == 1
\* Acquisition runs against the same media directory (SpecRerun only).
MaxRuns == 2
\* Page limit of the crawler (SpecCrawl only). The source sets MAX_PAGES = 50;
\* the crawl is checked with the limit scaled down, on sites that have more
\* pages than the limit.
MAX_PAGES == 3
\* Most anchors one page holds (SpecCrawl only).
MaxAnchors == 2

\* ------------------------------------------------------- program constants
\* Navigation timeout, milliseconds.
TIMEOUT == 30000
\* Per-request timeouts of the HTTP session, milliseconds.
CssTimeout == 30000
GetTimeout == 60000
WAIT_STRATEGIES == <<"domcontentloaded", "load">>

\* --------------------------------------------------------------- catalogue
Catalogue == {10, 20, 22, 25, 30, 35, 40, 45, 50, 60, 65, 70, 75, 80, 90}

IsDataUri(murl) == murl \in {20, 22, 25, 30, 35}

RECURSIVE Flatten(_)
Flatten(ss) == IF ss = <<>> THEN <<>> ELSE Head(ss) \o Flatten(Tail(ss))

Contains(s, t) == \E i \in 1..Len(s) : s[i] = t

\* ---------------------------------------------------------------- urljoin
\* An absolute URL is [origin, path, frag], path being its segments and frag
\* what follows "#". A reference as written in a document is absolute,
\* rooted ("/a/logo.png") or relative ("../b/logo.png").
StartUrl == [origin |-> "https://ex.com", path |-> <<"shop", "item", "42">>, frag |-> ""]

Loc(murl) ==
    CASE murl = 10 -> [origin |-> "HTTP://cdn.ex.com", path |-> <<"fc9d5eb7cce43dd0.png">>, frag |-> ""]
      [] murl = 20 -> [origin |-> "data:", path |-> <<"image", "gif;base64,R0l">>, frag |-> ""]
      [] murl = 22 -> [origin |-> "data:", path |-> <<"image", "png;base64">>, frag |-> ""]
      [] murl = 25 -> [origin |-> "data:", path |-> <<"image", "png;base64,!!!!">>, frag |-> ""]
      [] murl = 30 -> [origin |-> "data:", path |-> <<"image", "png;base64,iVBORw0K">>, frag |-> ""]
      [] murl = 35 -> [origin |-> "data:", path |-> <<"text", "plain,a%20b">>, frag |-> ""]
      [] murl = 40 -> [origin |-> "https://ex.com", path |-> <<"a", "logo.png">>, frag |-> ""]
      [] murl = 45 -> [origin |-> "https://ex.com", path |-> <<"a", "logo.png">>, frag |-> "v2"]
      [] murl = 50 -> [origin |-> "https://ex.com", path |-> <<"b", "logo.png">>, frag |-> ""]
      [] murl = 60 -> [origin |-> "https://ex.com", path |-> <<"css", "main.css">>, frag |-> ""]
      [] murl = 65 -> [origin |-> "https://ex.com", path |-> <<"css", "skin.css">>, frag |-> ""]
      [] murl = 70 -> [origin |-> "https://ex.com", path |-> <<"feed">>, frag |-> ""]
      [] murl = 75 -> [origin |-> "https://ex.com", path |-> <<"img", "pic.png@2x">>, frag |-> ""]
      [] murl = 80 -> [origin |-> "https://ex.com", path |-> <<"shop", "b", "logo.png">>, frag |-> ""]
      [] murl = 90 -> [origin |-> "https://ex.com", path |-> <<"theme.css">>, frag |-> ""]
      [] OTHER -> [origin |-> "", path |-> <<>>, frag |-> ""]

RefOf(loc) == CHOOSE murl \in Catalogue : Loc(murl) = loc

\* The href of a catalogue reference as the page holds it: absolute.
Href(murl) ==
    [kind |-> "absolute", origin |-> Loc(murl).origin, segs |-> Loc(murl).path,
     frag |-> Loc(murl).frag]

Front(s) == SubSeq(s, 1, Len(s) - 1)

\* Removal of "seg/.." pairs, left to right.
RECURSIVE RemoveDotSegments(_, _)
RemoveDotSegments(done, rest) ==
    IF rest = <<>> THEN done
    ELSE IF Head(rest) = ".."
         THEN RemoveDotSegments(IF done = <<>> THEN done ELSE Front(done), Tail(rest))
         ELSE RemoveDotSegments(Append(done, Head(rest)), Tail(rest))

\* The fragment of the result is the reference's: urljoin strips nothing.
urljoin(base, ref) ==
    CASE ref.kind = "absolute" ->
           [origin |-> ref.origin, path |-> ref.segs, frag |-> ref.frag]
      [] ref.kind = "rooted" ->
           [origin |-> base.origin, path |-> ref.segs, frag |-> ref.frag]
      [] OTHER ->
           [origin |-> base.origin,
            path |-> RemoveDotSegments(<<>>, Front(base.path) \o ref.segs),
            frag |-> ref.frag]

\* re.findall(r'url\(...\)', r.text): the url(...) values of a stylesheet's
\* text, as written.
SheetUrls(css) ==
    CASE css = 60 -> {[kind |-> "relative", origin |-> "",
                       segs |-> <<"..", "b", "logo.png">>, frag |-> ""]}
      [] css = 65 -> {[kind |-> "relative", origin |-> "",
                       segs |-> <<"main.css">>, frag |-> ""]}
      [] css = 90 -> {[kind |-> "rooted", origin |-> "",
                       segs |-> <<"b", "logo.png">>, frag |-> ""],
                      Href(30)}
      [] OTHER -> {}

css_abs_page(css_url) == StartUrl

\* css_abs = urljoin(start_url, css_url)
css_abs(css_url) == urljoin(StartUrl, Href(css_url))

\* media_urls.add(urljoin(css_abs, m)) for every match m.
SheetRefs(css) == {RefOf(urljoin(css_abs(css), m)) : m \in SheetUrls(css)}

\* --------------------------------------------------------------- data URIs
\* header, b64 = data_uri.split(",", 1): the header after "data:", cut at
\* its ";" separators, and the payload, cut into base64 quanta of four
\* characters (base64) or into literal characters and %XX escapes (text).
\* Without a comma split gives one part and the unpacking raises.
HasComma(murl) == murl # 22

DataHeader(murl) ==
    CASE murl = 20 -> <<"image/gif", ";", "base64">>
      [] murl \in {22, 25, 30} -> <<"image/png", ";", "base64">>
      [] murl = 35 -> <<"text/plain">>
      [] OTHER -> <<>>

DataPayload(murl) ==
    CASE murl = 20 -> <<"R0l">>
      [] murl = 25 -> <<"!!!!">>
      [] murl = 30 -> <<"iVBO", "Rw0K">>
      [] murl = 35 -> <<"a", "%20", "b">>
      [] OTHER -> <<>>

\* content_type = header.split(";", 1)[0].split(":", 1)[1], taken only when
\* the header holds a ";".
HeaderType(murl) ==
    IF Contains(DataHeader(murl), ";") THEN DataHeader(murl)[1] ELSE "None"

\* ";base64" in header
IsBase64(murl) ==
    \E i \in 1..(Len(DataHeader(murl)) - 1) :
       DataHeader(murl)[i] = ";" /\ DataHeader(murl)[i + 1] = "base64"

\* b64decode of one group of four characters. validate is left False, so
\* characters outside the base64 alphabet are discarded before decoding.
B64Quantum(q) ==
    CASE q = "iVBO" -> <<137, 80, 78>>
      [] q = "Rw0K" -> <<71, 13, 10>>
      [] q = "!!!!" -> <<>>
      [] OTHER -> <<>>

\* A trailing group of fewer than four characters: "Incorrect padding".
B64Incomplete(q) == q \in {"R0l"}

\* str.encode("utf-8") of one piece of payload text.
Utf8(t) ==
    CASE t = "a" -> <<97>>
      [] t = "b" -> <<98>>
      [] t = "%20" -> <<37, 50, 48>>
      [] OTHER -> <<>>

\* urllib.parse.unquote_to_bytes of one piece of payload text.
Unquote(t) == IF t = "%20" THEN <<32>> ELSE Utf8(t)

\* b64decode / encode of the payload: the bytes written, or no result when
\* decoding raises.
DecodeRaises(murl) ==
    \/ ~HasComma(murl)
    \/ IsBase64(murl) /\ \E i \in 1..Len(DataPayload(murl)) : B64Incomplete(DataPayload(murl)[i])

PayloadBytes(murl) ==
    IF IsBase64(murl)
    THEN Flatten([i \in 1..Len(DataPayload(murl)) |-> B64Quantum(DataPayload(murl)[i])])
    ELSE Flatten([i \in 1..Len(DataPayload(murl)) |-> Utf8(DataPayload(murl)[i])])

PayloadLen(murl) == Len(PayloadBytes(murl))

\* Content-Length the server reports for a GET of the reference (none for
\* chunked responses).
ContentLength(murl) == IF murl \in {10, 40, 60} THEN {MaxBody} ELSE {}

\* The body a server streams: n bytes.
Body(n) == [i \in 1..n |-> 0]

\* ------------------------------------------------------------- file names
\* A name is a sequence of pieces: a run of characters of [A-Za-z0-9_-], a
\* ".", or one character outside [A-Za-z0-9._-].
UnsafeChars == {";", ",", "%", "@", "/", ":", "!"}

\* os.path.basename(urlparse(abs_url).path)
BaseName(murl) ==
    CASE murl = 10 -> <<"fc9d5eb7cce43dd0", ".", "png">>
      [] murl = 20 -> <<"gif", ";", "base64", ",", "R0l">>
      [] murl = 22 -> <<"png", ";", "base64">>
      [] murl = 25 -> <<"png", ";", "base64", ",", "!!!!">>
      [] murl = 30 -> <<"png", ";", "base64", ",", "iVBORw0K">>
      [] murl = 35 -> <<"plain", ",", "a", "%", "20b">>
      [] murl \in {40, 45, 50, 80} -> <<"logo", ".", "png">>
      [] murl = 60 -> <<"main", ".", "css">>
      [] murl = 65 -> <<"skin", ".", "css">>
      [] murl = 70 -> <<"feed">>
      [] murl = 75 -> <<"pic", ".", "png", "@", "2x">>
      [] murl = 90 -> <<"theme", ".", "css">>
      [] OTHER -> <<>>

\* mimetypes.guess_extension for the types that occur.
MimeExt(content_type) ==
    CASE content_type = "image/png" -> <<".", "png">>
      [] content_type = "image/gif" -> <<".", "gif">>
      [] content_type = "text/plain" -> <<".", "txt">>
      [] OTHER -> <<>>

\* hashlib.sha256(s).hexdigest()[:16]; distinct strings of the catalogue hash
\* to distinct values.
Sha16(murl) ==
    CASE murl = 20 -> "1e85fd1e55dd37b1"
      [] murl = 22 -> "32443f5ad27d28bd"
      [] murl = 25 -> "53f99f764f25f2d4"
      [] murl = 30 -> "fc9d5eb7cce43dd0"
      [] murl = 35 -> "50c5bf6edf7f111b"
      [] murl = 70 -> "e7f732e0964fe6d5"
      [] OTHER -> "0000000000000000"

\* os.path.splitext: [root, ext], ext starting at the last "." that is not
\* the first character.
LastDot(name) ==
    LET dots == {i \in 2..Len(name) : name[i] = "."}
    IN  IF dots = {} THEN 0 ELSE CHOOSE i \in dots : \A j \in dots : j <= i

splitext(name) ==
    IF LastDot(name) = 0
    THEN [root |-> name, ext |-> <<>>]
    ELSE [root |-> SubSeq(name, 1, LastDot(name) - 1),
          ext |-> SubSeq(name, LastDot(name), Len(name))]

\* re.sub(r'[^A-Za-z0-9._-]', '_', name_base)
Sanitize(name) == [i \in 1..Len(name) |-> IF name[i] \in UnsafeChars THEN "_" ELSE name[i]]

\* str.endswith
EndsWith(name, suffix) ==
    /\ Len(suffix) <= Len(name)
    /\ SubSeq(name, Len(name) - Len(suffix) + 1, Len(name)) = suffix

\* A file of media_dir is <<root, ext, k>>, root and ext as os.path.splitext
\* gives them: root + ext when k = 0, and root + "_" + k + ext for a
\* suffixed name.
guess_extension_from_url_or_type(murl, content_type) ==
    IF Contains(BaseName(murl), ".") /\ splitext(BaseName(murl)).ext # <<>>
    THEN splitext(BaseName(murl)).ext
    ELSE MimeExt(content_type)

\* os.path.splitext of a whole file name (fname is evaluated once, then split).
PathOf(fname) ==
    CHOOSE p \in {<<splitext(n).root, splitext(n).ext, 0>> : n \in {fname}} : TRUE

DataFileName(murl) ==
    LET ext == guess_extension_from_url_or_type(murl, HeaderType(murl))
    IN  PathOf(<<Sha16(murl)>> \o (IF ext = <<>> THEN <<".", "bin">> ELSE ext))

NetFileName(murl, content_type) ==
    LET ext == guess_extension_from_url_or_type(murl, content_type)
        name_base == BaseName(murl)
        safe_base == Sanitize(name_base)
    IN  IF name_base = <<>> \/ ~Contains(name_base, ".")
        THEN PathOf(<<Sha16(murl)>> \o (IF ext = <<>> THEN <<".", "bin">> ELSE ext))
        ELSE PathOf(IF ext # <<>> /\ ~EndsWith(safe_base, ext)
                    THEN safe_base \o ext ELSE safe_base)

AvoidCollisionOnce(dest, files) ==
    IF dest \in files THEN <<dest[1], dest[2], 1>> ELSE dest

RECURSIVE FirstFree(_, _, _)
FirstFree(dest, counter, files) ==
    LET cand == IF counter = 0 THEN dest ELSE <<dest[1], dest[2], counter>>
    IN  IF cand \in files THEN FirstFree(dest, counter + 1, files) ELSE cand

\* The while os.path.exists(dest) loop.
AvoidCollision(dest, files) == FirstFree(dest, 0, files)

\* ------------------------------------------------------------ dictionaries
EmptyDict == [x \in {} |-> 0]
SetKey(d, k, v) == [x \in (DOMAIN d) \cup {k} |-> IF x = k THEN v ELSE d[x]]

Min(S) == CHOOSE x \in S : \A y \in S : x <= y
\* Time only matters up to the deadline: the clock saturates there.
Saturating(a, b) == IF a + b > TIMEOUT THEN TIMEOUT ELSE a + b

\* ----------------------------------------------------------------- cookies
UserAgent == "Mozilla/5.0 Chrome/120.0.0.0"
NoDomain == "None"
SidCookie == [name |-> "sid", value |-> "s1", domain |-> ".ex.com", path |-> "/"]
CdnCookie == [name |-> "cdn", value |-> "t9", domain |-> "cdn.ex.com", path |-> "/img"]
HostlessCookie == [name |-> "pref", value |-> "dark", domain |-> NoDomain, path |-> "/"]
\* Cookie sets a page visit can leave in its browser context.
PageCookieSets == {{SidCookie, CdnCookie}, {SidCookie, HostlessCookie}}

\* jar.set for every cookie, then sess.cookies = jar; create_cookie raises on
\* a domain of None, the except clause swallows it and the session keeps the
\* empty jar it was constructed with.
TransferCookies(cookies) ==
    IF \E c \in cookies : c.domain = NoDomain THEN {} ELSE cookies

\* --------------------------------------------------------------- the page
\* The source categories of collect_media_urls, one per try block, in the
\* order of the code. A page is a set of items <<category, reference>>.
Categories ==
    <<"img", "media", "icon", "og_meta", "background", "stylesheet", "inline_style">>

Refs(page) == {it[2] : it \in page}

\* What goes wrong in the DOM while collecting: nothing, a category's query
\* (query_selector_all, page.evaluate) raises, or the handling of one
\* element of a category raises.
NoFault == [cat |-> "none", kind |-> "none", at |-> 0]
FaultsOf(page) ==
    {NoFault}
      \cup {[cat |-> it[1], kind |-> "query", at |-> 0] : it \in page}
      \cup {[cat |-> it[1], kind |-> "element", at |-> it[2]] : it \in page}

\* A scenario: the items the site's pages are made of, whether the DOM can
\* fail during collection, how navigation can end, the cookie sets a visit
\* can leave, and the files media_dir holds before the run.
ForeignFile == [src |-> 0, len |-> 1, bytes |-> <<0>>]

MainSite ==
    [items |-> {<<"img", 10>>, <<"img", 20>>, <<"img", 30>>, <<"icon", 40>>,
                <<"og_meta", 50>>, <<"stylesheet", 60>>, <<"media", 70>>},
     faulty |-> FALSE,
     navs |-> {"ok"},
     cookies |-> PageCookieSets,
     seed |-> [p \in {} |-> ForeignFile]]

DiscoverySite ==
    [items |-> {<<"og_meta", 50>>, <<"background", 50>>,
                <<"stylesheet", 60>>, <<"stylesheet", 90>>},
     faulty |-> FALSE,
     navs |-> {"ok"},
     cookies |-> {{SidCookie}},
     seed |-> [p \in {} |-> ForeignFile]]

FaultySite ==
    [items |-> {<<"img", 30>>, <<"img", 40>>,
                <<"background", 40>>, <<"background", 50>>,
                <<"stylesheet", 60>>},
     faulty |-> TRUE,
     navs |-> {"ok", "timeout", "error"},
     cookies |-> {{SidCookie}},
     seed |-> [p \in {} |-> ForeignFile]]

NamesSite ==
    [items |-> {<<"img", 35>>, <<"img", 75>>, <<"icon", 40>>, <<"og_meta", 50>>,
                <<"stylesheet", 60>>, <<"media", 70>>},
     faulty |-> FALSE,
     navs |-> {"ok"},
     cookies |-> {{SidCookie}},
     seed |-> [p \in {<<<<"logo">>, <<".", "png">>, 0>>,
                      <<<<"logo">>, <<".", "png">>, 2>>} |-> ForeignFile]]

IrregularSite ==
    [items |-> {<<"img", 22>>, <<"img", 25>>, <<"img", 40>>, <<"img", 45>>,
                <<"stylesheet", 65>>},
     faulty |-> FALSE,
     navs |-> {"ok"},
     cookies |-> {{SidCookie}},
     seed |-> [p \in {} |-> ForeignFile]]

\* The pages of a site, within the bounds.
PagesOf(s) ==
    {page \in SUBSET s.items :
        Cardinality(Refs(page)) <= MaxRefs /\ Cardinality(page) <= MaxRefs + 1}

\* ---------------------------------------------------------- the collector
\* What one category's try block adds to urls. A raising query leaves the
\* category empty. A raising element is skipped by the inner try (continue);
\* the computed-style block has no inner try, so the outer except ends it at
\* the raising item and keeps what the items before it gave (items are taken
\* in ascending order).
CategoryUrls(page, cat, f) ==
    LET found == {it[2] : it \in {x \in page : x[1] = cat}}
    IN  IF f.cat # cat THEN found
        ELSE IF f.kind = "query" THEN {}
        ELSE IF cat = "background" THEN {r \in found : r < f.at}
        ELSE found \ {f.at}

RECURSIVE SortedSeq(_)
SortedSeq(S) == IF S = {} THEN <<>> ELSE <<Min(S)>> \o SortedSeq(S \ {Min(S)})

collect_all_or_nothing(page, f) ==
    IF f = NoFault
    THEN [urls |-> Refs(page), css_hrefs |-> SortedSeq({it[2] : it \in {x \in page : x[1] = "stylesheet"}})]
    ELSE [urls |-> {}, css_hrefs |-> <<>>]

\* collect_media_urls: urls is a set, css_hrefs the list of stylesheet links.
collect_media_urls(page, f) ==
    [urls |-> UNION {CategoryUrls(page, Categories[i], f) : i \in 1..Len(Categories)},
     css_hrefs |-> SortedSeq(CategoryUrls(page, "stylesheet", f))]

VARIABLES
    site,        \* the scenario of this behaviour (never changes)
    pc,          \* position in parse_single_page_and_media
    nav,         \* how page.goto ended
    dom,         \* the items of the page that was loaded
    fault,       \* what went wrong in the DOM during collection
    contexts,    \* browser contexts created so far: [user_agent, cookies]
    context,     \* index of the context the name `context` is bound to
    sess,        \* requests.Session: [user_agent, cookies]
    warnings,    \* warnings recorded by the session bridge
    media_urls,  \* candidate set
    css_hrefs,   \* stylesheets still to scan
    scans,       \* stylesheet fetches so far: [css, result]
    todo,        \* references sorted(media_urls) has not reached yet
    work,        \* references between filename choice and end of download
    attempts,    \* reference -> times the loop body ran for it
    downloaded,  \* reference -> destination path
    errors,      \* reference -> reason
    events,      \* what the server / filesystem did for each attempt
    probeFailed, \* references whose HEAD raised
    disk,        \* media_dir: path -> [src, len, bytes]
    disk0,       \* the files earlier runs downloaded, as this run found them
    manifest,    \* outfile: <<>> (absent) or <<results["media"]>>
    elapsed,     \* wall-clock time spent in network requests, saturating
    run,         \* number of the current run
    cpc,         \* playwright_crawl: position ("loop", "done")
    seen,        \* playwright_crawl: seen
    queue,       \* playwright_crawl: queue
    results,     \* playwright_crawl: keys of results
    enqueued     \* URL -> times it was put on the queue

\* playwright_crawl is a program of its own: the scraper's actions leave its
\* variables alone, and its actions the scraper's.
crawlVars == <<cpc, seen, queue, results, enqueued>>
scrapeVars == <<site, pc, nav, dom, fault, contexts, context, sess, warnings,
                media_urls, css_hrefs, scans, todo, work, attempts, downloaded,
                errors, events, probeFailed, disk, disk0, manifest, elapsed, run>>
vars == <<scrapeVars, crawlVars>>

pageVars == <<site, nav, dom, fault>>
bridgeVars == <<contexts, context, sess, warnings>>
loopVars == <<todo, work, attempts, downloaded, errors, events, probeFailed>>

\* The URLs of the crawled site: pages 1..MAX_PAGES + 2 of the start URL's
\* domain (more pages than the limit admits), and 0, a page of another domain.
START_URL == 1
SiteUrls == 1..(MAX_PAGES + 2)
OffSite == 0

\* seen = set([start_url]); queue = deque([start_url]); results = {}
CrawlInit ==
    /\ cpc = "loop"
    /\ seen = {START_URL}
    /\ queue = <<START_URL>>
    /\ results = {}
    /\ enqueued = [u \in SiteUrls \cup {OffSite} |-> IF u = START_URL THEN 1 ELSE 0]

InitOn(s) ==
    /\ CrawlInit
    /\ site = s
    /\ pc = "navigate"
    /\ nav = "pending"
    /\ dom = {}
    /\ fault = NoFault
    /\ contexts = <<[user_agent |-> UserAgent, cookies |-> {}]>>
    /\ context = 1
    /\ sess = [user_agent |-> "python-requests", cookies |-> {}]
    /\ warnings = {}
    /\ media_urls = {}
    /\ css_hrefs = <<>>
    /\ scans = <<>>
    /\ todo = {}
    /\ work = EmptyDict
    /\ attempts = EmptyDict
    /\ downloaded = EmptyDict
    /\ errors = EmptyDict
    /\ events = EmptyDict
    /\ probeFailed = {}
    /\ disk = s.seed
    /\ disk0 = EmptyDict
    /\ manifest = <<>>
    /\ elapsed = 0
    /\ run = 1

Init == InitOn(MainSite)

NavigationContinuesAlways(outcome) == TRUE

\* for wait_type in WAIT_STRATEGIES: try: page.goto(...); break
\* except PlaywrightTimeout: ...   else: "continuing with partial load".
\* Only a timeout is caught; any other exception of page.goto leaves
\* parse_single_page_and_media.
NavigationContinues(outcome) == outcome \in {"ok", "timeout"}

\* page.goto in the context created first: the page's cookies land there.
\* "timeout" is a timeout under every wait strategy in turn.
Navigate ==
    /\ pc = "navigate"
    /\ \E outcome \in site.navs :
         /\ nav' = outcome
         /\ IF NavigationContinues(outcome)
            THEN /\ pc' = "collect"
                 /\ \E cs \in site.cookies :
                      contexts' = [contexts EXCEPT ![1].cookies = cs]
            ELSE /\ pc' = "aborted"
                 /\ contexts' = contexts
         /\ elapsed' = IF outcome = "timeout"
                       THEN Saturating(elapsed, Len(WAIT_STRATEGIES) * TIMEOUT)
                       ELSE elapsed
    /\ UNCHANGED <<crawlVars, site, dom, fault, context, sess, warnings, media_urls,
                   css_hrefs, scans, loopVars, disk, disk0, manifest, run>>

\* collect_media_urls(page, start_url) on the page that was loaded.
Collect ==
    /\ pc = "collect"
    /\ \E page \in PagesOf(site) :
         \E f \in (IF site.faulty THEN FaultsOf(page) ELSE {NoFault}) :
            /\ dom' = page
            /\ fault' = f
            /\ media_urls' = collect_media_urls(page, f).urls
            /\ css_hrefs' = collect_media_urls(page, f).css_hrefs
    /\ pc' = "bridge"
    /\ UNCHANGED <<crawlVars, site, nav, bridgeVars, scans, loopVars, disk, disk0,
                   manifest, elapsed, run>>

\* sess = requests.Session(); context = browser.new_context(...);
\* cookies = context.cookies(); the jar is filled from them.
Bridge ==
    /\ pc = "bridge"
    /\ contexts' = Append(contexts, [user_agent |-> UserAgent, cookies |-> {}])
    /\ context' = Len(contexts) + 1
    /\ sess' = [user_agent |-> UserAgent,
                cookies |-> TransferCookies(contexts'[context'].cookies)]
    /\ pc' = "css"
    /\ UNCHANGED <<crawlVars, pageVars, warnings, media_urls, css_hrefs, scans, loopVars,
                   disk, disk0, manifest, elapsed, run>>

\* What a stylesheet fetch can do: answer 200, answer another status, raise.
FetchResults == {"ok", "status", "raised"}

RemainingSheetsUntilRaise(sheets, result) ==
    IF result = "raised" THEN <<>> ELSE Tail(sheets)

RemainingSheetsNested(sheets, result) ==
    Tail(sheets) \o (IF result = "ok"
                     THEN SortedSeq({r \in SheetRefs(Head(sheets)) : r \in {60, 65, 90}})
                     ELSE <<>>)

\* The try block is inside `for css_url in css_hrefs`: whatever the fetch
\* did, the loop goes on with the next stylesheet.
RemainingSheets(sheets, result) == Tail(sheets)

\* One iteration of `for css_url in css_hrefs`.
ScanCss ==
    /\ pc = "css"
    /\ css_hrefs # <<>>
    /\ \E result \in FetchResults :
         /\ media_urls' = IF result = "ok"
                          THEN media_urls \cup SheetRefs(Head(css_hrefs))
                          ELSE media_urls
         /\ elapsed' = IF result = "raised"
                       THEN Saturating(elapsed, CssTimeout) ELSE elapsed
         /\ scans' = Append(scans, [css |-> Head(css_hrefs), result |-> result])
         /\ css_hrefs' = RemainingSheets(css_hrefs, result)
    /\ UNCHANGED <<crawlVars, pc, pageVars, bridgeVars, loopVars, disk, disk0, manifest, run>>

\* sorted(media_urls) is evaluated once, when the acquisition loop starts.
StartLoop ==
    /\ pc = "css"
    /\ css_hrefs = <<>>
    /\ pc' = "loop"
    /\ todo' = media_urls
    /\ UNCHANGED <<crawlVars, pageVars, bridgeVars, media_urls, css_hrefs, scans, work,
                   attempts, downloaded, errors, events, probeFailed, disk,
                   disk0, manifest, elapsed, run>>

\* ------------------------------------------------------------ acquisition
\* What the filesystem does to one open(dest, "wb") / write.
FsOutcomes == {"ok", "open_fails", "write_fails"}

\* save_data_uri: [ok, err, file], file being what dest holds afterwards
\* ({} when dest was not touched). open(dest, "wb") truncates dest before
\* anything is written.
save_data_uri(data_uri, fs) ==
    IF DecodeRaises(data_uri)
    THEN [ok |-> FALSE,
          err |-> IF HasComma(data_uri) THEN "binascii.Error" ELSE "ValueError",
          file |-> {}]
    ELSE CASE fs = "ok" ->
                [ok |-> TRUE, err |-> "",
                 file |-> {[src |-> data_uri, len |-> PayloadLen(data_uri),
                           bytes |-> PayloadBytes(data_uri)]}]
           [] fs = "open_fails" ->
                [ok |-> FALSE, err |-> "PermissionError", file |-> {}]
           [] OTHER ->
                [ok |-> FALSE, err |-> "OSError",
                 file |-> {[src |-> data_uri, len |-> 0, bytes |-> <<>>]}]

\* What server and filesystem do to one streamed GET: the status is not 2xx,
\* the request times out before the response, open(dest) fails, the stream
\* breaks after len bytes, or all len bytes of the body arrive.
NetOutcomes ==
    [kind : {"HTTPError", "Timeout", "OSError"}, len : {0}]
      \cup [kind : {"ChunkedEncodingError"}, len : 0..(MaxBody - 1)]
      \cup [kind : {"ok"}, len : 0..MaxBody]

download_always_ok(url, net) ==
    [ok |-> TRUE, err |-> "",
     file |-> IF net.kind \in {"ok", "ChunkedEncodingError"}
              THEN {[src |-> url, len |-> net.len, bytes |-> Body(net.len)]}
              ELSE {}]

\* download_with_requests: [ok, err, file] as for save_data_uri.
download_with_requests(url, net) ==
    CASE net.kind = "ok" ->
           [ok |-> TRUE, err |-> "",
            file |-> {[src |-> url, len |-> net.len, bytes |-> Body(net.len)]}]
      [] net.kind = "ChunkedEncodingError" ->
           [ok |-> FALSE, err |-> net.kind,
            file |-> {[src |-> url, len |-> net.len, bytes |-> Body(net.len)]}]
      [] OTHER ->
           [ok |-> FALSE, err |-> net.kind, file |-> {}]

SetDownloadedAlways(dl, murl, dest, res) == SetKey(dl, murl, dest)

\* if ok: downloaded[murl] = dest
SetDownloaded(dl, murl, dest, res) ==
    IF res.ok THEN SetKey(dl, murl, dest) ELSE dl

\* else: errors[murl] = err
SetErrors(er, murl, res) ==
    IF res.ok THEN er ELSE SetKey(er, murl, res.err)

WriteFile(files, dest, res) ==
    IF res.file = {} THEN files
    ELSE SetKey(files, dest, CHOOSE f \in res.file : TRUE)

LoopMayAdvanceAsync == TRUE

\* The loop body is one synchronous call chain: the next iteration starts
\* when download_with_requests has returned.
LoopMayAdvance == DOMAIN work = {}

LoopDoneEarly == DOMAIN work = {}

\* Control leaves `for murl in sorted(media_urls)` when the list is used up.
LoopDone == todo = {} /\ DOMAIN work = {}

\* if murl in downloaded or murl in errors: continue. (The `if not murl`
\* test before it never applies: urljoin gives no empty string.)
AlreadyRecorded(murl) == murl \in (DOMAIN downloaded) \cup (DOMAIN errors)

LoopVisitsAgain(murl) == murl \in media_urls

LoopVisitsUnsorted(murl) == murl \in todo /\ ~AlreadyRecorded(murl)

\* for murl in sorted(media_urls): the loop reaches each string of the set
\* once, in ascending order, and passes over one that already has an outcome.
LoopVisits(murl) == murl \in todo /\ murl = Min(todo) /\ ~AlreadyRecorded(murl)

Count(d, k) == IF k \in DOMAIN d THEN d[k] ELSE 0

\* The data-URI branch of the loop body.
AcquireData(murl) ==
    /\ pc = "loop"
    /\ LoopMayAdvance
    /\ LoopVisits(murl)
    /\ IsDataUri(murl)
    /\ \E fs \in FsOutcomes :
         LET dest == DataFileName(murl)
             res == save_data_uri(murl, fs)
         IN  /\ (DecodeRaises(murl) => fs = "ok")
             /\ disk' = WriteFile(disk, dest, res)
             /\ downloaded' = SetDownloaded(downloaded, murl, dest, res)
             /\ errors' = SetErrors(errors, murl, res)
             /\ events' = SetKey(events, murl, IF res.ok THEN "ok" ELSE res.err)
    /\ todo' = todo \ {murl}
    /\ attempts' = SetKey(attempts, murl, Count(attempts, murl) + 1)
    /\ UNCHANGED <<crawlVars, pc, pageVars, bridgeVars, media_urls, css_hrefs, scans, work,
                   probeFailed, disk0, manifest, elapsed, run>>

HeadContentTypeStale(head) == "image/png"

\* content_type = head.headers.get("content-type", ""), and None when
\* sess.head raises.
HeadContentType(head) == IF head = "raises" THEN "None" ELSE head

\* HEAD probe, filename derivation and the collision loop for a network
\* reference.
ProbeAndName(murl) ==
    /\ pc = "loop"
    /\ LoopMayAdvance
    /\ LoopVisits(murl)
    /\ ~IsDataUri(murl)
    /\ \E head \in {"image/png", "raises"} :
         LET content_type == HeadContentType(head)
             fname == NetFileName(murl, content_type)
             dest == AvoidCollision(fname, DOMAIN disk)
         IN  /\ work' = SetKey(work, murl, dest)
             /\ probeFailed' = IF head = "image/png" THEN probeFailed
                               ELSE probeFailed \cup {murl}
    /\ todo' = todo \ {murl}
    /\ attempts' = SetKey(attempts, murl, Count(attempts, murl) + 1)
    /\ UNCHANGED <<crawlVars, pc, pageVars, bridgeVars, media_urls, css_hrefs, scans,
                   downloaded, errors, events, disk, disk0, manifest, elapsed,
                   run>>

\* download_with_requests(sess, abs_url, dest) and the recording of its result.
Download(murl) ==
    /\ pc = "loop"
    /\ murl \in DOMAIN work
    /\ \E net \in NetOutcomes :
         LET dest == work[murl]
             res == download_with_requests(murl, net)
         IN  /\ disk' = WriteFile(disk, dest, res)
             /\ downloaded' = SetDownloaded(downloaded, murl, dest, res)
             /\ errors' = SetErrors(errors, murl, res)
             /\ events' = SetKey(events, murl, net.kind)
             /\ elapsed' = IF net.kind = "Timeout"
                           THEN Saturating(elapsed, GetTimeout) ELSE elapsed
    /\ work' = [x \in (DOMAIN work) \ {murl} |-> work[x]]
    /\ UNCHANGED <<crawlVars, pc, pageVars, bridgeVars, media_urls, css_hrefs, scans, todo,
                   attempts, probeFailed, disk0, manifest, run>>

\* results["media"] = {...}; json.dump(results, f)
WriteManifest ==
    /\ pc = "loop"
    /\ LoopDone
    /\ manifest' = <<[downloaded |-> downloaded, errors |-> errors]>>
    /\ pc' = "done"
    /\ UNCHANGED <<crawlVars, pageVars, bridgeVars, media_urls, css_hrefs, scans, loopVars,
                   disk, disk0, elapsed, run>>

\* A second invocation with the same reference set and media_dir.
Rerun ==
    /\ pc = "done"
    /\ run < MaxRuns
    /\ run' = run + 1
    /\ pc' = "loop"
    /\ todo' = media_urls
    /\ work' = EmptyDict
    /\ attempts' = EmptyDict
    /\ downloaded' = EmptyDict
    /\ errors' = EmptyDict
    /\ events' = EmptyDict
    /\ probeFailed' = {}
    /\ disk0' = [p \in {downloaded[r] : r \in DOMAIN downloaded} |-> disk[p]]
    /\ manifest' = <<>>
    /\ elapsed' = 0
    /\ UNCHANGED <<crawlVars, pageVars, bridgeVars, media_urls, css_hrefs, scans, disk>>

Next ==
    \/ Navigate
    \/ Collect
    \/ Bridge
    \/ ScanCss
    \/ StartLoop
    \/ \E murl \in Catalogue : AcquireData(murl)
    \/ \E murl \in Catalogue : ProbeAndName(murl)
    \/ \E murl \in Catalogue : Download(murl)
    \/ WriteManifest

Spec == Init /\ [][Next]_vars

NextRerun == Next \/ Rerun

SpecRerun == Init /\ [][NextRerun]_vars

\* The same program on a site whose pages repeat references across
\* categories and link two stylesheets.
SpecDiscovery == InitOn(DiscoverySite) /\ [][Next]_vars

\* The same program on a site with a DOM that can fail during collection
\* and a navigation that can time out or fail.
SpecFaulty == InitOn(FaultySite) /\ [][Next]_vars

\* The same program on a site with a non-base64 data URI and a path holding
\* characters outside [A-Za-z0-9._-], writing into a media_dir that already
\* holds logo.png and logo_2.png.
SpecNames == InitOn(NamesSite) /\ [][Next]_vars

\* The same program on a site with data URIs that lack a comma or hold no
\* base64 character, two references that differ in their fragment only, and
\* a stylesheet that names another stylesheet.
SpecIrregular == InitOn(IrregularSite) /\ [][Next]_vars

\* ---------------------------------------------------------------- crawler
\* An anchor's href: the page it leads to, and whether it carries a fragment.
Hrefs == [to : SiteUrls \cup {OffSite}, frag : {"", "top"}]

\* parsed.netloc of a URL.
Netloc(u) == IF u = OffSite THEN "other.example" ELSE "ex.com"
local_domain == Netloc(START_URL)

\* extract_links: the anchors of the local domain, fragments removed
\* (abs_url.split("#")[0]), as a set.
extract_links(anchors) == {a.to : a \in {h \in anchors : Netloc(h.to) = local_domain}}

\* list(links): the elements of a set in some order.
Orders(S) == {s \in [1..Cardinality(S) -> S] : \A i, j \in DOMAIN s : s[i] = s[j] => i = j}

NewLinksUnchecked(links, old) == links

\* for link in links: if link not in seen: ...
NewLinks(links, old) == links \ old

\* What one pass through the try block can do: page.goto or inner_text
\* raises before anything is recorded; save_text or extract_links raises
\* after results[url] = text; or the block runs to its end.
VisitOutcomes == {"goto_raises", "save_raises", "ok"}

\* One iteration of `while queue and len(results) < MAX_PAGES`.
Visit ==
    /\ cpc = "loop"
    /\ queue # <<>>
    /\ Cardinality(results) < MAX_PAGES
    /\ \E outcome \in VisitOutcomes :
         \E anchors \in {A \in SUBSET Hrefs : Cardinality(A) <= MaxAnchors} :
            LET page_url == Head(queue)
                fresh == IF outcome = "ok"
                         THEN NewLinks(extract_links(anchors), seen) ELSE {}
            IN  /\ outcome # "ok" => anchors = {}
                /\ results' = IF outcome = "goto_raises" THEN results
                              ELSE results \cup {page_url}
                /\ seen' = seen \cup fresh
                /\ \E order \in Orders(fresh) : queue' = Tail(queue) \o order
                /\ enqueued' = [u \in DOMAIN enqueued |->
                                   IF u \in fresh THEN Min({enqueued[u] + 1, 2})
                                   ELSE enqueued[u]]
    /\ UNCHANGED <<scrapeVars, cpc>>

\* The loop condition is false: browser.close(), save_json.
FinishCrawl ==
    /\ cpc = "loop"
    /\ ~(queue # <<>> /\ Cardinality(results) < MAX_PAGES)
    /\ cpc' = "done"
    /\ UNCHANGED <<scrapeVars, seen, queue, results, enqueued>>

NextCrawl == Visit \/ FinishCrawl

\* playwright_crawl(START_URL). The loop is sequential code: an iteration
\* that can run does run, every page operation being bounded by a timeout.
SpecCrawl == InitOn(MainSite) /\ [][NextCrawl]_vars /\ WF_vars(NextCrawl)

\* ------------------------------------------------------------------ claims
Keys(d) == DOMAIN d
Failed(r) == r \in Keys(events) /\ events[r] # "ok"
Succeeded(r) == r \in Keys(events) /\ events[r] = "ok"

\* C1: when the manifest is written every reference of the merged candidate
\* set is a key of exactly one of media.downloaded and media.errors, and at no
\* step of the loop is a reference a key of both.
C1_ExactlyOneOutcome ==
    /\ Keys(downloaded) \cap Keys(errors) = {}
    /\ manifest # <<>> =>
         \A r \in media_urls :
            (r \in Keys(manifest[1].downloaded)) # (r \in Keys(manifest[1].errors))

\* A manifest holding successes and failures for a candidate set that a
\* scanned stylesheet extended beyond what the page gave.
C1_Witness ==
    /\ manifest # <<>>
    /\ Cardinality(media_urls) > MaxRefs
    /\ Keys(manifest[1].downloaded) # {}
    /\ Keys(manifest[1].errors) # {}

\* C2: within one run no two distinct references of media.downloaded map to
\* the same destination path.
C2_DistinctDestinations ==
    \A a, b \in Keys(downloaded) : a # b => downloaded[a] # downloaded[b]

\* C3: a re-run with the same reference set leaves every file an earlier run
\* downloaded with the bytes it had before the run.
C3_RerunKeepsFiles ==
    \A p \in Keys(disk0) : p \in Keys(disk) /\ disk[p] = disk0[p]

\* C4 as claimed: every failure on a reference, a failed probe included, is
\* recorded in media.errors by the time the manifest is written.
C4_EveryFailureRecorded ==
    manifest # <<>> =>
       \A r \in media_urls : (Failed(r) \/ r \in probeFailed) => r \in Keys(errors)

\* C4 as amended: a failed data-URI decode, GET or file write is recorded in
\* media.errors for that reference only, with its own reason; a failed probe
\* alone is not; the batch is never aborted, every reference is attempted and
\* every success is recorded in media.downloaded.
C4_FailuresIsolated ==
    /\ \A r \in Keys(events) :
          IF events[r] = "ok"
          THEN r \in Keys(downloaded) /\ r \notin Keys(errors)
          ELSE r \in Keys(errors) /\ errors[r] = events[r]
                 /\ r \notin Keys(downloaded)
    /\ Keys(errors) \cup Keys(downloaded) \subseteq Keys(events)
    /\ manifest # <<>> => Keys(events) = media_urls
    /\ pc = "loop" =>
          \/ Keys(work) # {}
          \/ LoopMayAdvance /\ \E murl \in todo : LoopVisits(murl)
          \/ LoopDone

\* A failure on one reference, then a success on a later one, then the
\* manifest.
C4_Witness ==
    /\ manifest # <<>>
    /\ \E a, b \in media_urls :
          a < b /\ Failed(a) /\ Succeeded(b) /\ b \in Keys(downloaded)

\* C5: the manifest is written only when every reference of the candidate set
\* has its outcome and no acquisition is pending or in progress.
C5_ManifestAfterAll ==
    manifest # <<>> =>
       /\ todo = {}
       /\ Keys(work) = {}
       /\ Keys(manifest[1].downloaded) \cup Keys(manifest[1].errors) = media_urls

\* C5's case: a manifest written for a candidate set of several references,
\* a network download among them.
C5_Witness ==
    /\ manifest # <<>>
    /\ Cardinality(media_urls) >= 2
    /\ \E r \in media_urls : ~IsDataUri(r)

\* C6: once the global timeout has fired, every reference not yet attempted
\* leaves the pending set only by being recorded in media.errors with a
\* timeout reason.
C6_GlobalTimeout ==
    [][elapsed >= TIMEOUT =>
         \A r \in todo \ todo' :
            r \in Keys(errors') /\ errors'[r] = "global timeout"]_vars

C8_SessionCarriesCookies ==
    pc \in {"css", "loop", "done"} =>
       /\ sess.cookies = contexts[1].cookies
       /\ sess.user_agent = contexts[1].user_agent

\* C9: a browser cookie without a domain is skipped with a recorded warning
\* and every other cookie of the browser's cookie set reaches the session.
C9_HostlessCookieWarned ==
    (pc \in {"css", "loop", "done"}
       /\ \E c \in contexts[1].cookies : c.domain = NoDomain) =>
       \A c \in contexts[1].cookies :
          IF c.domain = NoDomain
          THEN c \in warnings /\ c \notin sess.cookies
          ELSE c \in sess.cookies

\* C10: for every reference of media.downloaded the file at its destination
\* exists, is non-empty and has the content length the source reported.
C10_FilesComplete ==
    \A r \in Keys(downloaded) :
       /\ downloaded[r] \in Keys(disk)
       /\ disk[downloaded[r]].len > 0
       /\ \A n \in ContentLength(r) : disk[downloaded[r]].len = n

\* The references the loaded page holds in one category, and in all
\* categories but the one that failed.
Found(cat) == {it[2] : it \in {x \in dom : x[1] = cat}}
OtherCategories ==
    UNION {Found(Categories[i]) : i \in {j \in 1..Len(Categories) : Categories[j] # fault.cat}}

\* C11 as claimed: if page navigation fails, timing out under every wait
\* strategy included, the invocation is aborted: no collection, no
\* acquisition and no manifest write follows.
C11_NavigationFailureAborts ==
    nav \in {"timeout", "error"} =>
       /\ pc = "aborted"
       /\ media_urls = {}
       /\ Keys(attempts) = {}
       /\ manifest = <<>>

\* C11 as amended: a navigation error other than a timeout aborts the
\* invocation before anything is collected, acquired or written; a
\* navigation that timed out under every wait strategy is not aborted, and
\* its run ends with the manifest written.
C11_OnlyErrorsAbort ==
    /\ nav = "error" =>
          /\ pc = "aborted"
          /\ media_urls = {} /\ scans = <<>>
          /\ Keys(attempts) = {}
          /\ manifest = <<>>
    /\ nav = "timeout" => pc # "aborted"
    /\ pc = "done" => manifest # <<>>

\* A navigation that failed with an error, and the invocation aborted.
C11_Witness == nav = "error" /\ pc = "aborted"

C13_SheetRelative ==
    /\ 80 \notin media_urls
    /\ \A i \in 1..Len(scans) :
          scans[i].result = "ok" =>
             /\ scans[i].css = 60 => 50 \in media_urls
             /\ scans[i].css = 90 => {30, 50} \subseteq media_urls

\* A scanned stylesheet gave a reference the page itself does not hold.
C13_Witness ==
    /\ \E i \in 1..Len(scans) : scans[i] = [css |-> 60, result |-> "ok"]
    /\ 50 \notin Refs(dom)
    /\ 50 \in media_urls

\* C14: a stylesheet whose fetch raises or answers another status than 200
\* contributes no reference; the remaining stylesheets are still scanned and
\* acquisition proceeds with the whole candidate set.
C14_FailedSheetSkipped ==
    /\ pc \in {"css", "loop", "done"} =>
          media_urls = collect_media_urls(dom, fault).urls
                         \cup UNION {SheetRefs(scans[i].css) :
                                       i \in {j \in 1..Len(scans) : scans[j].result = "ok"}}
    /\ pc \in {"loop", "done"} =>
          [i \in 1..Len(scans) |-> scans[i].css] = collect_media_urls(dom, fault).css_hrefs
    /\ manifest # <<>> => Keys(attempts) = media_urls

\* The first of two stylesheets failed, the second was scanned, and the run
\* went on to download.
C14_Witness ==
    /\ pc = "done"
    /\ Len(scans) = 2
    /\ scans[1].result # "ok"
    /\ scans[2].result = "ok"
    /\ Keys(downloaded) # {}

\* The bytes the claim expects a data URI to be saved as.
ExpectedBytes(murl) ==
    IF IsBase64(murl)
    THEN Flatten([i \in 1..Len(DataPayload(murl)) |-> B64Quantum(DataPayload(murl)[i])])
    ELSE Flatten([i \in 1..Len(DataPayload(murl)) |-> Unquote(DataPayload(murl)[i])])

\* C15: the file saved for a data URI holds the base64-decoded payload when
\* the header carries the base64 marker, and the percent-decoded payload
\* text otherwise.
C15_DataBytes ==
    \A r \in Keys(downloaded) :
       (IsDataUri(r) /\ disk[downloaded[r]].src = r) =>
          disk[downloaded[r]].bytes = ExpectedBytes(r)

\* The destination chosen for a reference, while in flight and afterwards.
Dest(r) == IF r \in Keys(work) THEN work[r] ELSE downloaded[r]

\* C16: when the HEAD probe raises, the GET is still attempted, with the
\* content type unknown (an extension-less path gets .bin); the probe
\* failure alone never puts the reference into media.errors.
C16_ProbeFailureTolerated ==
    \A r \in probeFailed :
       /\ r \in Keys(work) \/ r \in Keys(events)
       /\ r \in Keys(errors) => Failed(r)
       /\ Succeeded(r) => r \in Keys(downloaded)
       /\ (r = 70 /\ r \in Keys(work) \cup Keys(downloaded)) =>
             Dest(r)[2] = <<".", "bin">>

\* The probe of the extension-less reference raised and its download
\* succeeded.
C16_Witness == 70 \in probeFailed /\ 70 \in Keys(downloaded)

\* C17: each distinct reference string is attempted at most once per run,
\* also when several categories and a stylesheet gave it; when the manifest
\* is written each candidate was attempted exactly once.
C17_AttemptedOnce ==
    /\ \A r \in Keys(attempts) : attempts[r] <= 1
    /\ manifest # <<>> => \A r \in media_urls : r \in Keys(attempts) /\ attempts[r] = 1

\* A reference found in two categories of the page and in a scanned
\* stylesheet, attempted once.
C17_Witness ==
    /\ manifest # <<>>
    /\ {<<"og_meta", 50>>, <<"background", 50>>} \subseteq dom
    /\ \E i \in 1..Len(scans) : scans[i] = [css |-> 60, result |-> "ok"]
    /\ attempts[50] = 1

\* C18: a network reference whose derived filename exists is saved as
\* <base>_<k><ext> with the smallest k >= 1 that is free, base and ext being
\* those of the derived name; the chosen destination does not exist when it
\* is chosen.
C18_SmallestFreeSuffix ==
    \A r \in Keys(work) :
       /\ work[r] \notin Keys(disk)
       /\ \A k \in 0..(work[r][3] - 1) : <<work[r][1], work[r][2], k>> \in Keys(disk)
       /\ <<work[r][1], work[r][2], 0>>
             \in {NetFileName(r, ct) : ct \in {"image/png", "None"}}

\* A destination chosen past a suffix that was already taken.
C18_Witness ==
    \E r \in Keys(work) :
       work[r][3] = 3 /\ <<work[r][1], work[r][2], 2>> \in Keys(disk)

\* C19: the complete filename of a network reference consists only of
\* characters of [A-Za-z0-9._-].
C19_SafeFilenames ==
    \A r \in Keys(work) \cup {x \in Keys(downloaded) : ~IsDataUri(x)} :
       \A i \in 1..Len(Dest(r)[1] \o Dest(r)[2]) :
          (Dest(r)[1] \o Dest(r)[2])[i] \notin UnsafeChars

\* The extension the claim expects for a data URI: the canonical extension
\* of the media type between "data:" and the first ";" or ",".
CanonicalExt(murl) ==
    IF MimeExt(DataHeader(murl)[1]) = <<>> THEN <<".", "bin">>
    ELSE MimeExt(DataHeader(murl)[1])

\* C20: a data URI causes no network request and is saved under the hash of
\* the raw reference plus the canonical extension of its media type.
C20_DataFileNames ==
    \A r \in Keys(events) :
       IsDataUri(r) =>
          /\ r \notin probeFailed
          /\ r \in Keys(downloaded) =>
                downloaded[r] = <<<<Sha16(r)>>, CanonicalExt(r), 0>>

\* A data URI is malformed when it has no comma, or carries the base64
\* marker with a payload that is not base64: a character outside the
\* alphabet, or a last group of fewer than four characters.
NotBase64(q) == B64Incomplete(q) \/ q \in {"!!!!"}
Malformed(murl) ==
    /\ IsDataUri(murl)
    /\ \/ ~HasComma(murl)
       \/ IsBase64(murl) /\ \E i \in 1..Len(DataPayload(murl)) : NotBase64(DataPayload(murl)[i])

\* C21: a malformed data URI the loop has handled is a key of media.errors
\* and not of media.downloaded, and when the manifest is written every other
\* reference of the candidate set has its outcome too.
C21_MalformedDataRejected ==
    /\ \A r \in media_urls :
          Malformed(r) /\ r \in Keys(attempts) =>
             r \in Keys(errors) /\ r \notin Keys(downloaded)
    /\ manifest # <<>> =>
          \A r \in media_urls : r \in Keys(downloaded) \cup Keys(errors)

\* Two references that name the same resource: they differ in nothing but
\* the fragment.
SameResource(a, b) ==
    Loc(a).origin = Loc(b).origin /\ Loc(a).path = Loc(b).path

\* C22: no network location of the candidate set carries a fragment, and no
\* two members of the set differ in their fragment only, so that one
\* resource is acquired once.
C22_FragmentsStripped ==
    /\ \A r \in media_urls : ~IsDataUri(r) => Loc(r).frag = ""
    /\ \A a, b \in media_urls :
          ~IsDataUri(a) /\ ~IsDataUri(b) /\ SameResource(a, b) => a = b
    /\ \A a, b \in Keys(attempts) :
          ~IsDataUri(a) /\ ~IsDataUri(b) /\ SameResource(a, b) => a = b

\* What a run is given: the candidate set, the files media_dir holds at its
\* start, and for every reference what server and filesystem answer: whether
\* the probe raised, and whether the write or download left a file at the
\* destination.
ProbeAnswer(r) == IF r \in probeFailed THEN "raises" ELSE "image/png"
FileLeft(r) ==
    /\ r \in Keys(events)
    /\ events[r] \in (IF IsDataUri(r) THEN {"ok", "OSError"}
                      ELSE {"ok", "ChunkedEncodingError"})

\* The destinations a run assigns, as a function of what it is given alone:
\* the references are taken in ascending order, each named against the files
\* present when its turn comes.
RECURSIVE Replay(_, _, _)
Replay(refs, files, dests) ==
    IF refs = <<>> THEN dests
    ELSE LET r == Head(refs)
             dest == IF IsDataUri(r) THEN DataFileName(r)
                     ELSE AvoidCollision(NetFileName(r, HeadContentType(ProbeAnswer(r))),
                                         files)
         IN  Replay(Tail(refs),
                    IF FileLeft(r) THEN files \cup {dest} ELSE files,
                    SetKey(dests, r, dest))

\* C23: the references handled so far are the smallest of the candidate set
\* (the loop takes them in ascending order), and the destination of each is
\* the one the candidate set, the initial directory contents and the
\* responses determine: two runs given the same three agree on every path.
C23_Deterministic ==
    pc \in {"loop", "done"} =>
       /\ \A r \in Keys(attempts) : \A s \in media_urls : s < r => s \in Keys(attempts)
       /\ \A r \in Keys(work) \cup Keys(downloaded) :
             Dest(r) = Replay(SortedSeq(Keys(attempts)), DOMAIN site.seed, EmptyDict)[r]

\* Two references with the same file name against a directory that already
\* holds logo.png and logo_2.png: the first download breaks off and leaves
\* logo_1.png behind, so the second is saved as logo_3.png.
C23_Witness ==
    /\ pc = "done"
    /\ 40 \in Keys(errors) /\ events[40] = "ChunkedEncodingError"
    /\ 50 \in Keys(downloaded) /\ downloaded[50][3] = 3

\* C24: once the acquisition loop has started no stylesheet is left to scan
\* and the candidate set no longer changes; the stylesheets scanned are the
\* ones the page links, so a stylesheet that only another stylesheet names
\* is a candidate like any asset and is never scanned itself.
C24_ScanBeforeLoop ==
    /\ pc \in {"loop", "done"} =>
          /\ css_hrefs = <<>>
          /\ Len(scans) = Cardinality(Found("stylesheet"))
          /\ todo \cup Keys(attempts) = media_urls
    /\ Keys(attempts) # {} => pc \in {"loop", "done"}
    /\ \A i \in 1..Len(scans) : scans[i].css \in Found("stylesheet")

C24_SingleLevelScan ==
    [](C24_ScanBeforeLoop) /\ [][pc = "loop" => media_urls' = media_urls]_vars

\* skin.css names main.css: main.css is downloaded, was never fetched for
\* scanning, and the logo it names never became a candidate.
C24_Witness ==
    /\ pc = "done"
    /\ scans = <<[css |-> 65, result |-> "ok"]>>
    /\ 60 \in Keys(downloaded) /\ 60 \notin Refs(dom)
    /\ 50 \notin media_urls

\* The links still waiting in the queue.
Queued == {queue[i] : i \in 1..Len(queue)}

C25_Bounded ==
    /\ \A u \in DOMAIN enqueued : enqueued[u] <= 1
    /\ \A i, j \in 1..Len(queue) : queue[i] = queue[j] => i = j
    /\ Queued \subseteq seen /\ Queued \cap results = {}
    /\ \A u \in seen : Netloc(u) = local_domain
    /\ Cardinality(results) <= MAX_PAGES

\* C25: the crawl ends on every site and whatever visits fail; no URL is put
\* on the queue twice, only URLs of the start domain are, and results never
\* holds more than MAX_PAGES pages.
C25_CrawlTerminates == [](C25_Bounded) /\ <>(cpc = "done")

\* The crawl has stopped at the page limit with links still queued, after a
\* visit that failed.
C25_Witness ==
    /\ cpc = "done"
    /\ Cardinality(results) = MAX_PAGES
    /\ queue # <<>>
    /\ \E u \in seen : u \notin results /\ u \notin Queued
====
